---- MODULE Spec2Model ----
(***************************************************************************)
(* HD44780 character LCD driven through a 74HC595 shift register over      *)
(* hardware SPI (src/src/main.cpp).                                        *)
(*                                                                         *)
(* The program is single threaded.  It is modelled statement by statement: *)
(* `stack` is the call stack (function names, innermost last), `frame`     *)
(* holds the parameters and locals of each function (no function is        *)
(* recursive, so one frame per function is enough), and a frame's pc is    *)
(* the source line of the statement it executes next, times ten, plus the  *)
(* position of the statement on that line (lines 133-135 hold two).        *)
(*                                                                         *)
(* The hardware is the latch pin, the register's shift stage `sr`, its     *)
(* output stage `q` (copied from `sr` at a rising edge of the latch), the  *)
(* SPI transaction depth `txn`, and `now`, the busy-wait time accumulated  *)
(* by delay() and delayMicroseconds(), in microseconds.                    *)
(*                                                                         *)
(* History (what a recording bus would log): `commits` is the sequence of  *)
(* <<byte, time>> latched into the outputs, `xfers` counts the transfers   *)
(* since the latch was last driven low, `txnCommits` counts the commits of *)
(* the current transaction, and `calls` records the API calls the caller   *)
(* has completed.                                                          *)
(***************************************************************************)
EXTENDS Integers, Sequences, FiniteSets, TLC

VARIABLES stack, frame, latch, sr, q, txn, now, commits, xfers, txnCommits, calls

vars == <<stack, frame, latch, sr, q, txn, now, commits, xfers, txnCommits, calls>>
hw   == <<latch, sr, q, txn, now, commits, xfers, txnCommits>>

----------------------------------------------------------------------------
(* Bounds of the model *)

\* the caller issues at most MaxCalls API calls after lcd_init (Spec)
MaxCalls == 2

----------------------------------------------------------------------------
(* Constants of the program *)

LOW  == 0
HIGH == 1
RS_BIT     == 1      \* 0x01, Q0 -> LCD RS
ENABLE_BIT == 2      \* 0x02, Q1 -> LCD Enable
DATA_MASK  == 240    \* 0xF0, Q4-Q7 -> LCD D4-D7
ENABLE_PULSE_US == 2     \* delayMicroseconds(2)
NIBBLE_SETTLE_US == 50   \* delayMicroseconds(50) after a nibble
COMMAND_SETTLE_US == 50  \* delayMicroseconds(50) after a short command
LONG_COMMAND_MS == 5     \* delay(5) after clear / home
LONG_THRESHOLD_US == 1520 \* "Clear/Home need 1.52ms min"
POWER_UP_MS == 50        \* delay(50)
OUTPUTS_LOW_MS == 10     \* delay(10)
RESET_FIRST_MS == 5      \* delay(5) after the first 0x3
RESET_NEXT_US == 200     \* delayMicroseconds(200)

Byte == 0..255

\* (variant: the offsets of rows 1 and 2 are exchanged)
offsets_Swapped == <<0, 20, 64, 84>>

\* byte offsets[] = {0x00, 0x40, 0x14, 0x54};   (row r is offsets[r + 1])
offsets == <<0, 64, 20, 84>>

----------------------------------------------------------------------------
(* C integer operators on non-negative values *)

RECURSIVE BitAnd(_, _)
BitAnd(a, b) ==
  IF a = 0 \/ b = 0 THEN 0
  ELSE (a % 2) * (b % 2) + 2 * BitAnd(a \div 2, b \div 2)

RECURSIVE BitOr(_, _)
BitOr(a, b) ==
  IF a = 0 THEN b
  ELSE IF b = 0 THEN a
  ELSE (IF a % 2 = 1 \/ b % 2 = 1 THEN 1 ELSE 0) + 2 * BitOr(a \div 2, b \div 2)

\* conversion of an int to byte (uint8_t)
ToByte(x) == x % 256

\* x & ~mask, for a byte x
ClearBits(x, mask) == BitAnd(x, 255 - mask)

----------------------------------------------------------------------------
(* The expressions of the driver *)

\* (variant: the high nibble is not masked)
highNibbleOf_NoMask(data) == data

\* byte highNibble = (data & 0xF0);
highNibbleOf(data) == BitAnd(data, DATA_MASK)

\* (variant: the low nibble is not shifted up)
lowNibbleOf_NoShift(data) == BitAnd(data, DATA_MASK)

\* byte lowNibble = ((data << 4) & 0xF0);
lowNibbleOf(data) == ToByte(BitAnd(data * 16, DATA_MASK))

\* (variant: the RS bit of the register's outputs is carried over)
PacketInit_CarryRS(nibble) == nibble + (q % 2)

\* byte packet = nibble;
PacketInit(nibble) == nibble

\* (variant: the RS bit is never set)
PacketWithRS_Never(packet, rs) == packet

\* if (rs == 1) packet |= 0x01;
PacketWithRS(packet, rs) == IF rs = 1 THEN BitOr(packet, RS_BIT) ELSE packet

\* packet &= ~0x02;
EnableLow(packet) == ClearBits(packet, ENABLE_BIT)

\* (variant: Enable is never raised)
EnableHigh_NotSet(packet) == packet

\* packet |= 0x02;
EnableHigh(packet) == BitOr(packet, ENABLE_BIT)

\* (variant: return home is not treated as long)
IsLongCommand_OnlyClear(cmd) == cmd = 1

\* if (cmd == 0x01 || cmd == 0x02)
IsLongCommand(cmd) == cmd = 1 \/ cmd = 2

\* offsets[row] with `byte row` unchecked: the values the read can give.
\* For row 0..3 it is the table entry; for row >= 4 the read is past the
\* 4-element array (undefined behaviour) and gives whatever byte lies there.
offsetsRead(row) == IF row < Len(offsets) THEN {offsets[row + 1]} ELSE Byte

\* (variant: the set-DDRAM-address bit is left out)
CursorCommand_NoSetBit(col, row) ==
  {ToByte(col + off) : off \in offsetsRead(row)}

\* the arguments lcd_setCursor can pass to lcd_command, converted to byte:
\* one value for row 0..3, any 0x80 | x for a row past the table
CursorCommand(col, row) ==
  {ToByte(BitOr(128, col + off)) : off \in offsetsRead(row)}

----------------------------------------------------------------------------
(* Frames *)

L(line)  == line * 10        \* the first statement of a source line
L2(line) == line * 10 + 1    \* the second statement of a source line

Functions ==
  {"caller", "main", "setup", "loop",
   "lcd_init", "lcd_command", "lcd_print", "lcd_setCursor",
   "lcd_send_data", "send_nibble_spi"}

\* the functions whose calls of the driver are recorded in `calls`
Callers == {"caller", "setup"}

\* a frame that is not active
NoFrame == [pc |-> 0]

Top == stack[Len(stack)]
At(f, pc) == Top = f /\ frame[f].pc = pc
Goto(f, pc) == frame' = [frame EXCEPT ![f].pc = pc]

\* the frame of a call, by callee; base and t0 are the number of commits and
\* the time at entry (history)
Frame_send_nibble_spi(nibble, rs) ==
  [pc |-> L(65), nibble |-> nibble, rs |-> rs, packet |-> 0,
   base |-> Len(commits), t0 |-> now]
Frame_lcd_send_data(data, rs) ==
  [pc |-> L(57), data |-> data, rs |-> rs, highNibble |-> 0, lowNibble |-> 0,
   base |-> Len(commits), t0 |-> now]
Frame_lcd_command(cmd) ==
  [pc |-> L(102), cmd |-> cmd, base |-> Len(commits), t0 |-> now]
Frame_lcd_print(text) ==
  [pc |-> L(111), text |-> text, str |-> 0, base |-> Len(commits), t0 |-> now]
Frame_lcd_setCursor(col, row) ==
  [pc |-> L(118), col |-> col, row |-> row, base |-> Len(commits), t0 |-> now]
Frame_lcd_init ==
  [pc |-> L(122), base |-> Len(commits), t0 |-> now]

\* f, at pc, calls callee with frame fr and continues at next when it returns
Call(f, pc, next, callee, fr) ==
  /\ At(f, pc)
  /\ stack' = Append(stack, callee)
  /\ frame' = [frame EXCEPT ![f].pc = next, ![callee] = fr]
  /\ UNCHANGED <<hw, calls>>

\* the arguments of the active call of f, for the call record
ArgsOf(f) ==
  CASE f = "lcd_command"     -> <<frame[f].cmd>>
    [] f = "lcd_print"       -> <<frame[f].text>>
    [] f = "lcd_setCursor"   -> <<frame[f].col, frame[f].row>>
    [] f = "lcd_send_data"   -> <<frame[f].data, frame[f].rs>>
    [] f = "send_nibble_spi" -> <<frame[f].nibble, frame[f].rs>>
    [] OTHER                 -> <<>>

\* f returns at pc (its closing brace); a call made by the caller or by setup
\* is recorded
Return(f, pc) ==
  /\ At(f, pc)
  /\ stack' = SubSeq(stack, 1, Len(stack) - 1)
  /\ frame' = [frame EXCEPT ![f] = NoFrame]
  /\ calls' = IF Len(stack) >= 2 /\ stack[Len(stack) - 1] \in Callers
              THEN Append(calls, [fn |-> f, args |-> ArgsOf(f),
                                  from |-> frame[f].base, to |-> Len(commits),
                                  t0 |-> frame[f].t0, t1 |-> now])
              ELSE calls
  /\ UNCHANGED hw

----------------------------------------------------------------------------
(* Arduino primitives, as the 74HC595 and a recording bus see them *)

\* digitalWrite(SLAVE_SELECT_PIN, val): a rising edge of the latch copies the
\* shift stage to the outputs
digitalWrite(val) ==
  /\ latch' = val
  /\ IF latch = LOW /\ val = HIGH
       THEN /\ q' = sr
            /\ commits' = Append(commits, <<sr, now>>)
            /\ txnCommits' = txnCommits + 1
       ELSE UNCHANGED <<q, commits, txnCommits>>
  /\ xfers' = IF val = LOW THEN 0 ELSE xfers
  /\ UNCHANGED <<sr, txn, now>>

\* SPI.transfer(b): eight bits, MSB first, end up in the shift stage
SPI_transfer(b) ==
  /\ sr' = b
  /\ xfers' = xfers + 1
  /\ UNCHANGED <<latch, q, txn, now, commits, txnCommits>>

\* SPI.beginTransaction(SPI_SETTINGS)
SPI_beginTransaction ==
  /\ txn' = txn + 1
  /\ txnCommits' = 0
  /\ UNCHANGED <<latch, sr, q, now, commits, xfers>>

\* SPI.endTransaction()
SPI_endTransaction ==
  /\ txn' = txn - 1
  /\ UNCHANGED <<latch, sr, q, now, commits, xfers, txnCommits>>

\* delayMicroseconds(us)
delayMicroseconds(us) ==
  /\ now' = now + us
  /\ UNCHANGED <<latch, sr, q, txn, commits, xfers, txnCommits>>

\* delay(ms)
delay(ms) == delayMicroseconds(1000 * ms)

----------------------------------------------------------------------------
(* send_nibble_spi(nibble, rs), lines 64-97 *)

SN == "send_nibble_spi"

send_nibble_spi_65 ==
  /\ At(SN, L(65))
  /\ frame' = [frame EXCEPT ![SN].packet = PacketInit(frame[SN].nibble),
                            ![SN].pc = L(68)]
  /\ UNCHANGED <<stack, hw, calls>>

send_nibble_spi_68 ==
  /\ At(SN, L(68))
  /\ frame' = [frame EXCEPT ![SN].packet = PacketWithRS(frame[SN].packet, frame[SN].rs),
                            ![SN].pc = L(71)]
  /\ UNCHANGED <<stack, hw, calls>>

\* (variant: the bus is not acquired)
send_nibble_spi_71_NoBegin ==
  /\ At(SN, L(71))
  /\ Goto(SN, L(74))
  /\ UNCHANGED <<stack, hw, calls>>

send_nibble_spi_71 ==
  /\ At(SN, L(71))
  /\ SPI_beginTransaction
  /\ Goto(SN, L(74))
  /\ UNCHANGED <<stack, calls>>

\* packet &= ~0x02;  at lines 74 and 88
send_nibble_spi_EnableLow(pc, next) ==
  /\ At(SN, pc)
  /\ frame' = [frame EXCEPT ![SN].packet = EnableLow(frame[SN].packet),
                            ![SN].pc = next]
  /\ UNCHANGED <<stack, hw, calls>>

send_nibble_spi_74 == send_nibble_spi_EnableLow(L(74), L(75))
send_nibble_spi_88 == send_nibble_spi_EnableLow(L(88), L(89))

\* packet |= 0x02;
send_nibble_spi_81 ==
  /\ At(SN, L(81))
  /\ frame' = [frame EXCEPT ![SN].packet = EnableHigh(frame[SN].packet),
                            ![SN].pc = L(82)]
  /\ UNCHANGED <<stack, hw, calls>>

\* (variant: the latch is not driven low before the transfer)
send_nibble_spi_LatchLow_Skipped(pc, next) ==
  /\ At(SN, pc)
  /\ Goto(SN, next)
  /\ UNCHANGED <<stack, hw, calls>>

\* digitalWrite(SLAVE_SELECT_PIN, LOW);  at lines 75, 82 and 89
send_nibble_spi_LatchLow(pc, next) ==
  /\ At(SN, pc)
  /\ digitalWrite(LOW)
  /\ Goto(SN, next)
  /\ UNCHANGED <<stack, calls>>

send_nibble_spi_75 == send_nibble_spi_LatchLow(L(75), L(76))
send_nibble_spi_82 == send_nibble_spi_LatchLow(L(82), L(83))
send_nibble_spi_89 == send_nibble_spi_LatchLow(L(89), L(90))

\* SPI.transfer(packet);  at lines 76, 83 and 90
send_nibble_spi_Transfer(pc, next) ==
  /\ At(SN, pc)
  /\ SPI_transfer(frame[SN].packet)
  /\ Goto(SN, next)
  /\ UNCHANGED <<stack, calls>>

send_nibble_spi_76 == send_nibble_spi_Transfer(L(76), L(77))
send_nibble_spi_83 == send_nibble_spi_Transfer(L(83), L(84))
send_nibble_spi_90 == send_nibble_spi_Transfer(L(90), L(91))

\* digitalWrite(SLAVE_SELECT_PIN, HIGH);  at lines 77, 84 and 91
send_nibble_spi_LatchHigh(pc, next) ==
  /\ At(SN, pc)
  /\ digitalWrite(HIGH)
  /\ Goto(SN, next)
  /\ UNCHANGED <<stack, calls>>

send_nibble_spi_77 == send_nibble_spi_LatchHigh(L(77), L(78))
send_nibble_spi_84 == send_nibble_spi_LatchHigh(L(84), L(85))
send_nibble_spi_91 == send_nibble_spi_LatchHigh(L(91), L(94))

\* (variant: no wait between the commits of a nibble)
send_nibble_spi_PulseDelay_None(pc, next) ==
  /\ At(SN, pc)
  /\ Goto(SN, next)
  /\ UNCHANGED <<stack, hw, calls>>

\* delayMicroseconds(2);  at lines 78 and 85
send_nibble_spi_PulseDelay(pc, next) ==
  /\ At(SN, pc)
  /\ delayMicroseconds(ENABLE_PULSE_US)
  /\ Goto(SN, next)
  /\ UNCHANGED <<stack, calls>>

send_nibble_spi_78 == send_nibble_spi_PulseDelay(L(78), L(81))
send_nibble_spi_85 == send_nibble_spi_PulseDelay(L(85), L(88))

\* (variant: the bus is not released before the settle delay)
send_nibble_spi_94_NoRelease ==
  /\ At(SN, L(94))
  /\ Goto(SN, L(96))
  /\ UNCHANGED <<stack, hw, calls>>

send_nibble_spi_94 ==
  /\ At(SN, L(94))
  /\ SPI_endTransaction
  /\ Goto(SN, L(96))
  /\ UNCHANGED <<stack, calls>>

send_nibble_spi_96 ==
  /\ At(SN, L(96))
  /\ delayMicroseconds(NIBBLE_SETTLE_US)
  /\ Goto(SN, L(97))
  /\ UNCHANGED <<stack, calls>>

send_nibble_spi_97 == Return(SN, L(97))

send_nibble_spi ==
  \/ send_nibble_spi_65 \/ send_nibble_spi_68 \/ send_nibble_spi_71
  \/ send_nibble_spi_74 \/ send_nibble_spi_75 \/ send_nibble_spi_76
  \/ send_nibble_spi_77 \/ send_nibble_spi_78
  \/ send_nibble_spi_81 \/ send_nibble_spi_82 \/ send_nibble_spi_83
  \/ send_nibble_spi_84 \/ send_nibble_spi_85
  \/ send_nibble_spi_88 \/ send_nibble_spi_89 \/ send_nibble_spi_90
  \/ send_nibble_spi_91
  \/ send_nibble_spi_94 \/ send_nibble_spi_96 \/ send_nibble_spi_97

----------------------------------------------------------------------------
(* lcd_send_data(data, rs), lines 51-62 *)

SD == "lcd_send_data"

lcd_send_data_57 ==
  /\ At(SD, L(57))
  /\ frame' = [frame EXCEPT ![SD].highNibble = highNibbleOf(frame[SD].data),
                            ![SD].pc = L(58)]
  /\ UNCHANGED <<stack, hw, calls>>

lcd_send_data_58 ==
  /\ At(SD, L(58))
  /\ frame' = [frame EXCEPT ![SD].lowNibble = lowNibbleOf(frame[SD].data),
                            ![SD].pc = L(60)]
  /\ UNCHANGED <<stack, hw, calls>>

\* (variant: the low nibble is sent first)
lcd_send_data_60_LowFirst ==
  Call(SD, L(60), L(61), SN, Frame_send_nibble_spi(frame[SD].lowNibble, frame[SD].rs))

\* send_nibble_spi(highNibble, rs);
lcd_send_data_60 ==
  Call(SD, L(60), L(61), SN, Frame_send_nibble_spi(frame[SD].highNibble, frame[SD].rs))

\* (variant: the high nibble is sent twice)
lcd_send_data_61_HighAgain ==
  Call(SD, L(61), L(62), SN, Frame_send_nibble_spi(frame[SD].highNibble, frame[SD].rs))

\* send_nibble_spi(lowNibble, rs);
lcd_send_data_61 ==
  Call(SD, L(61), L(62), SN, Frame_send_nibble_spi(frame[SD].lowNibble, frame[SD].rs))

lcd_send_data_62 == Return(SD, L(62))

lcd_send_data ==
  \/ lcd_send_data_57 \/ lcd_send_data_58 \/ lcd_send_data_60
  \/ lcd_send_data_61 \/ lcd_send_data_62

----------------------------------------------------------------------------
(* lcd_command(cmd), lines 101-108 *)

CM == "lcd_command"

\* lcd_send_data(cmd, 0);
lcd_command_102 ==
  Call(CM, L(102), L(103), SD, Frame_lcd_send_data(frame[CM].cmd, 0))

\* if (cmd == 0x01 || cmd == 0x02)
lcd_command_103 ==
  /\ At(CM, L(103))
  /\ Goto(CM, IF IsLongCommand(frame[CM].cmd) THEN L(104) ELSE L(106))
  /\ UNCHANGED <<stack, hw, calls>>

\* delay(5);
lcd_command_104 ==
  /\ At(CM, L(104))
  /\ delay(LONG_COMMAND_MS)
  /\ Goto(CM, L(108))
  /\ UNCHANGED <<stack, calls>>

\* (variant: no extra settle time after a short command)
lcd_command_106_NoDelay ==
  /\ At(CM, L(106))
  /\ Goto(CM, L(108))
  /\ UNCHANGED <<stack, hw, calls>>

\* delayMicroseconds(50);
lcd_command_106 ==
  /\ At(CM, L(106))
  /\ delayMicroseconds(COMMAND_SETTLE_US)
  /\ Goto(CM, L(108))
  /\ UNCHANGED <<stack, calls>>

lcd_command_108 == Return(CM, L(108))

lcd_command ==
  \/ lcd_command_102 \/ lcd_command_103 \/ lcd_command_104
  \/ lcd_command_106 \/ lcd_command_108

----------------------------------------------------------------------------
(* lcd_print(str), lines 110-114.  The memory str points into is `text`,   *)
(* a sequence of bytes holding a terminator; the local str is the offset   *)
(* of the pointer from the start of the text.                              *)

PR == "lcd_print"

\* *str
Deref(fr) == fr.text[fr.str + 1]

\* while (*str)
lcd_print_111 ==
  /\ At(PR, L(111))
  /\ Goto(PR, IF Deref(frame[PR]) # 0 THEN L(112) ELSE L(114))
  /\ UNCHANGED <<stack, hw, calls>>

\* (variant: the characters are sent with RS = 0)
lcd_print_112_AsCommand ==
  /\ At(PR, L(112))
  /\ stack' = Append(stack, SD)
  /\ frame' = [frame EXCEPT ![PR].str = frame[PR].str + 1,
                            ![PR].pc = L(111),
                            ![SD] = Frame_lcd_send_data(Deref(frame[PR]), 0)]
  /\ UNCHANGED <<hw, calls>>

\* lcd_send_data(*str++, 1);
lcd_print_112 ==
  /\ At(PR, L(112))
  /\ stack' = Append(stack, SD)
  /\ frame' = [frame EXCEPT ![PR].str = frame[PR].str + 1,
                            ![PR].pc = L(111),
                            ![SD] = Frame_lcd_send_data(Deref(frame[PR]), 1)]
  /\ UNCHANGED <<hw, calls>>

lcd_print_114 == Return(PR, L(114))

lcd_print == lcd_print_111 \/ lcd_print_112 \/ lcd_print_114

----------------------------------------------------------------------------
(* lcd_setCursor(col, row), lines 116-119 *)

SC == "lcd_setCursor"

\* lcd_command(0x80 | (col + offsets[row]));
lcd_setCursor_118 ==
  /\ At(SC, L(118))
  /\ \E cmd \in CursorCommand(frame[SC].col, frame[SC].row) :
        Call(SC, L(118), L(119), CM, Frame_lcd_command(cmd))

lcd_setCursor_119 == Return(SC, L(119))

lcd_setCursor == lcd_setCursor_118 \/ lcd_setCursor_119

----------------------------------------------------------------------------
(* lcd_init(), lines 121-145 *)

INIT_FN == "lcd_init"

\* a delay statement of lcd_init
lcd_init_Delay(pc, next, us) ==
  /\ At(INIT_FN, pc)
  /\ delayMicroseconds(us)
  /\ Goto(INIT_FN, next)
  /\ UNCHANGED <<stack, calls>>

\* delay(50);
lcd_init_122 == lcd_init_Delay(L(122), L(125), 1000 * POWER_UP_MS)

lcd_init_125 ==
  /\ At(INIT_FN, L(125))
  /\ SPI_beginTransaction
  /\ Goto(INIT_FN, L(126))
  /\ UNCHANGED <<stack, calls>>

lcd_init_126 ==
  /\ At(INIT_FN, L(126))
  /\ digitalWrite(LOW)
  /\ Goto(INIT_FN, L(127))
  /\ UNCHANGED <<stack, calls>>

\* (variant: the register is cleared to all ones)
lcd_init_127_AllHigh ==
  /\ At(INIT_FN, L(127))
  /\ SPI_transfer(255)
  /\ Goto(INIT_FN, L(128))
  /\ UNCHANGED <<stack, calls>>

\* SPI.transfer(0x00);
lcd_init_127 ==
  /\ At(INIT_FN, L(127))
  /\ SPI_transfer(0)
  /\ Goto(INIT_FN, L(128))
  /\ UNCHANGED <<stack, calls>>

lcd_init_128 ==
  /\ At(INIT_FN, L(128))
  /\ digitalWrite(HIGH)
  /\ Goto(INIT_FN, L(129))
  /\ UNCHANGED <<stack, calls>>

lcd_init_129 ==
  /\ At(INIT_FN, L(129))
  /\ SPI_endTransaction
  /\ Goto(INIT_FN, L(130))
  /\ UNCHANGED <<stack, calls>>

\* delay(10);
lcd_init_130 == lcd_init_Delay(L(130), L(133), 1000 * OUTPUTS_LOW_MS)

\* (variant: the first reset nibble is followed by the short reset delay)
lcd_init_133b_Short == lcd_init_Delay(L2(133), L(134), RESET_NEXT_US)

\* send_nibble_spi(0x30, 0); delay(5);
lcd_init_133 == Call(INIT_FN, L(133), L2(133), SN, Frame_send_nibble_spi(48, 0))
lcd_init_133b == lcd_init_Delay(L2(133), L(134), 1000 * RESET_FIRST_MS)

\* send_nibble_spi(0x30, 0); delayMicroseconds(200);
lcd_init_134 == Call(INIT_FN, L(134), L2(134), SN, Frame_send_nibble_spi(48, 0))
lcd_init_134b == lcd_init_Delay(L2(134), L(135), RESET_NEXT_US)

\* send_nibble_spi(0x30, 0); delayMicroseconds(200);
lcd_init_135 == Call(INIT_FN, L(135), L2(135), SN, Frame_send_nibble_spi(48, 0))
lcd_init_135b == lcd_init_Delay(L2(135), L(137), RESET_NEXT_US)

\* send_nibble_spi(0x20, 0);
lcd_init_137 == Call(INIT_FN, L(137), L(138), SN, Frame_send_nibble_spi(32, 0))

\* delayMicroseconds(200);
lcd_init_138 == lcd_init_Delay(L(138), L(141), RESET_NEXT_US)

\* (variant: display control and entry mode are exchanged)
InitCommands_Swapped == <<40, 6, 12, 1>>

\* lcd_command(0x28); lcd_command(0x0C); lcd_command(0x06); lcd_command(0x01);
InitCommands == <<40, 12, 6, 1>>
lcd_init_141 == Call(INIT_FN, L(141), L(142), CM, Frame_lcd_command(InitCommands[1]))
lcd_init_142 == Call(INIT_FN, L(142), L(143), CM, Frame_lcd_command(InitCommands[2]))
lcd_init_143 == Call(INIT_FN, L(143), L(144), CM, Frame_lcd_command(InitCommands[3]))
lcd_init_144 == Call(INIT_FN, L(144), L(145), CM, Frame_lcd_command(InitCommands[4]))

lcd_init_145 == Return(INIT_FN, L(145))

lcd_init ==
  \/ lcd_init_122 \/ lcd_init_125 \/ lcd_init_126 \/ lcd_init_127
  \/ lcd_init_128 \/ lcd_init_129 \/ lcd_init_130
  \/ lcd_init_133 \/ lcd_init_133b \/ lcd_init_134 \/ lcd_init_134b
  \/ lcd_init_135 \/ lcd_init_135b \/ lcd_init_137 \/ lcd_init_138
  \/ lcd_init_141 \/ lcd_init_142 \/ lcd_init_143 \/ lcd_init_144
  \/ lcd_init_145

----------------------------------------------------------------------------
(* The caller: setup() calls lcd_init first and the display API after it.  *)
(* The caller of the model does the same with any arguments: lcd_init,     *)
(* then calls drawn from the sets below.                                   *)

CA == "caller"

\* command bytes, texts (with their terminator) and columns the caller of
\* Spec uses; rows are the rows of the offset table
CmdSet == {1, 2, 12}
Texts  == {<<0>>, <<65, 66, 0>>, <<200, 0, 67, 0>>}
Cols   == {5, 250}
Rows   == 0..3
\* rows past the offset table and the columns passed with them (SpecAll)
RowsPast == {4, 7, 255}
ColsPast == {0, 5}
Nibbles == {16 * n : n \in 0..15}

\* lcd_init();
caller_37 ==
  Call(CA, L(37), L(40), INIT_FN, Frame_lcd_init)

\* one API call with arguments from the small sets (Spec)
caller_command ==
  /\ Len(calls) < MaxCalls + 1
  /\ \E cmd \in CmdSet : Call(CA, L(40), L(40), CM, Frame_lcd_command(cmd))

caller_print ==
  /\ Len(calls) < MaxCalls + 1
  /\ \E text \in Texts : Call(CA, L(40), L(40), PR, Frame_lcd_print(text))

caller_setCursor ==
  /\ Len(calls) < MaxCalls + 1
  /\ \E col \in Cols, row \in Rows :
        Call(CA, L(40), L(40), SC, Frame_lcd_setCursor(col, row))

\* one call with any arguments (SpecAll): the calls record holds lcd_init only
any_command ==
  /\ Len(calls) = 1
  /\ \E cmd \in Byte : Call(CA, L(40), L(40), CM, Frame_lcd_command(cmd))

any_setCursor ==
  /\ Len(calls) = 1
  /\ \E arg \in (Byte \X Rows) \cup (ColsPast \X RowsPast) :
        Call(CA, L(40), L(40), SC, Frame_lcd_setCursor(arg[1], arg[2]))

any_send_data ==
  /\ Len(calls) = 1
  /\ \E data \in Byte, rs \in {0, 1} :
        Call(CA, L(40), L(40), SD, Frame_lcd_send_data(data, rs))

any_send_nibble ==
  /\ Len(calls) = 1
  /\ \E nibble \in Nibbles, rs \in {0, 1} :
        Call(CA, L(40), L(40), SN, Frame_send_nibble_spi(nibble, rs))

any_print ==
  /\ Len(calls) = 1
  /\ \E text \in Texts : Call(CA, L(40), L(40), PR, Frame_lcd_print(text))

----------------------------------------------------------------------------
(* Specifications *)

\* after pinMode and SPI.begin: the level of the latch pin and the contents
\* of the register are whatever power-up left there (one arbitrary byte, in
\* both stages of the register; the shift stage is overwritten by the first
\* transfer before any rising edge of the latch)
Init ==
  /\ stack = <<CA>>
  /\ frame = [f \in Functions |-> IF f = CA THEN [pc |-> L(37)] ELSE NoFrame]
  /\ latch \in {LOW, HIGH}
  /\ q \in Byte
  /\ sr = q
  /\ txn = 0
  /\ now = 0
  /\ commits = <<>>
  /\ xfers = 0
  /\ txnCommits = 0
  /\ calls = <<>>

Driver ==
  \/ send_nibble_spi \/ lcd_send_data \/ lcd_command
  \/ lcd_print \/ lcd_setCursor \/ lcd_init

\* lcd_init, then up to MaxCalls API calls with arguments from the small sets
Next ==
  \/ Driver
  \/ caller_37 \/ caller_command \/ caller_print \/ caller_setCursor

Spec == Init /\ [][Next]_vars

\* lcd_init, then one call of any function with any arguments
NextAll ==
  \/ Driver
  \/ caller_37
  \/ any_command \/ any_setCursor \/ any_send_data \/ any_send_nibble \/ any_print

SpecAll == Init /\ [][NextAll]_vars

----------------------------------------------------------------------------
(* The program: setup(), lines 29-43, then loop(), lines 45-47, again and  *)
(* again.                                                                  *)

MA == "main"
SU == "setup"
LO == "loop"

\* "SPI Interface" and "By Francis", with their terminators
Text_40 == <<83, 80, 73, 32, 73, 110, 116, 101, 114, 102, 97, 99, 101, 0>>
Text_42 == <<66, 121, 32, 70, 114, 97, 110, 99, 105, 115, 0>>

\* setup(); once
main_setup ==
  Call(MA, 1, 2, SU, [pc |-> L(31), base |-> Len(commits), t0 |-> now])

\* loop(); forever
main_loop ==
  Call(MA, 2, 2, LO, [pc |-> L(47), base |-> Len(commits), t0 |-> now])

\* pinMode(SLAVE_SELECT_PIN, OUTPUT);  the pin keeps its level
setup_31 ==
  /\ At(SU, L(31))
  /\ Goto(SU, L(34))
  /\ UNCHANGED <<stack, hw, calls>>

\* SPI.begin();
setup_34 ==
  /\ At(SU, L(34))
  /\ Goto(SU, L(37))
  /\ UNCHANGED <<stack, hw, calls>>

\* (variant: the display is initialised twice)
setup_40_InitAgain == Call(SU, L(40), L(41), INIT_FN, Frame_lcd_init)

setup_37 == Call(SU, L(37), L(40), INIT_FN, Frame_lcd_init)
setup_40 == Call(SU, L(40), L(41), PR, Frame_lcd_print(Text_40))
setup_41 == Call(SU, L(41), L(42), SC, Frame_lcd_setCursor(0, 1))
setup_42 == Call(SU, L(42), L(43), PR, Frame_lcd_print(Text_42))
setup_43 == Return(SU, L(43))

setup ==
  \/ setup_31 \/ setup_34 \/ setup_37 \/ setup_40 \/ setup_41 \/ setup_42
  \/ setup_43

\* the body of loop is empty
loop_47 == Return(LO, L(47))

InitProgram ==
  /\ stack = <<MA>>
  /\ frame = [f \in Functions |-> IF f = MA THEN [pc |-> 1] ELSE NoFrame]
  /\ latch \in {LOW, HIGH}
  /\ q \in Byte
  /\ sr = q
  /\ txn = 0
  /\ now = 0
  /\ commits = <<>>
  /\ xfers = 0
  /\ txnCommits = 0
  /\ calls = <<>>

NextProgram ==
  \/ Driver
  \/ main_setup \/ main_loop \/ setup \/ loop_47

SpecProgram == InitProgram /\ [][NextProgram]_vars

\* lcd_init, then up to MaxCalls calls of lcd_print; the processor always
\* executes the next statement
NextPrint ==
  \/ send_nibble_spi \/ lcd_send_data \/ lcd_command \/ lcd_print \/ lcd_init
  \/ caller_37 \/ caller_print

SpecPrint == Init /\ [][NextPrint]_vars /\ WF_vars(NextPrint)

----------------------------------------------------------------------------
(* Reading the record of commits.  These operators are written with plain  *)
(* arithmetic, independently of the driver's expressions.                  *)

CB(i) == commits[i][1]        \* the byte of commit i
CT(i) == commits[i][2]        \* the time of commit i

\* the bytes of commits from + 1 .. to
BytesOf(from, to) == [i \in 1..(to - from) |-> CB(from + i)]

\* the commits from + 1 .. to, with times relative to t
RelativeTo(from, to, t) == [i \in 1..(to - from) |-> <<CB(from + i), CT(from + i) - t>>]

EnableOf(b) == (b \div 2) % 2       \* bit 1
RSOf(b)     == b % 2                \* bit 0
DataOf(b)   == b - (b % 16)         \* bits 4-7, in place

\* the three packets of a nibble transmission, nibble a multiple of 16
NibblePackets(nibble, rs) == <<nibble + rs, nibble + rs + 2, nibble + rs>>

\* the six packets of a byte transmission
BytePackets(b, rs) ==
  NibblePackets(16 * (b \div 16), rs) \o NibblePackets(16 * (b % 16), rs)

\* the nibbles the controller latches from a sequence of committed bytes:
\* <<data bits, RS>> at every falling edge of Enable
RECURSIVE Latched(_)
Latched(bs) ==
  IF Len(bs) < 2 THEN <<>>
  ELSE LET rest == Latched(SubSeq(bs, 1, Len(bs) - 1))
           prev == bs[Len(bs) - 1]
           last == bs[Len(bs)]
       IN  IF EnableOf(prev) = 1 /\ EnableOf(last) = 0
           THEN Append(rest, <<DataOf(last), RSOf(last)>>)
           ELSE rest

----------------------------------------------------------------------------
(* C1: when send_nibble_spi(nibble, rs) returns, exactly three bytes have  *)
(* been committed since it was entered: Enable clear, Enable set, Enable   *)
(* clear, in this order, all three with data bits equal to nibble and with *)
(* the same RS bit.                                                        *)

C1_NibbleIsThreeCommits ==
  At(SN, L(97)) =>
    LET fr == frame[SN]
        b  == fr.base
    IN  /\ Len(commits) = b + 3
        /\ EnableOf(CB(b + 1)) = 0
        /\ EnableOf(CB(b + 2)) = 1
        /\ EnableOf(CB(b + 3)) = 0
        /\ \A i \in 1..3 : /\ DataOf(CB(b + i)) = fr.nibble
                           /\ RSOf(CB(b + i)) = RSOf(CB(b + 1))

\* send_nibble_spi(0xF0, 1), called directly, is about to return
C1_Witness ==
  /\ At(SN, L(97))
  /\ Len(stack) = 2
  /\ frame[SN].nibble = 240
  /\ frame[SN].rs = 1
  /\ Len(commits) = frame[SN].base + 3

----------------------------------------------------------------------------
(* C2: when lcd_init returns, the bytes committed since it was entered are *)
(* the all-low byte 0x00 (no Enable pulse, so nothing is transmitted to    *)
(* the controller by it), then the packets of three nibbles 0x30, one      *)
(* nibble 0x20 and the bytes 0x28, 0x0C, 0x06, 0x01, all with RS = 0, and  *)
(* nothing else; the controller latches exactly these twelve nibbles; and  *)
(* at least the long threshold has elapsed since the last commit.          *)

InitPackets ==
  <<0>> \o NibblePackets(48, 0) \o NibblePackets(48, 0) \o NibblePackets(48, 0)
        \o NibblePackets(32, 0)
        \o BytePackets(40, 0) \o BytePackets(12, 0) \o BytePackets(6, 0)
        \o BytePackets(1, 0)

InitNibbles ==
  << <<48, 0>>, <<48, 0>>, <<48, 0>>, <<32, 0>>,
     <<32, 0>>, <<128, 0>>, <<0, 0>>, <<192, 0>>,
     <<0, 0>>, <<96, 0>>, <<0, 0>>, <<16, 0>> >>

C2_InitSequence ==
  At(INIT_FN, L(145)) =>
    /\ frame[INIT_FN].base = 0
    /\ BytesOf(0, Len(commits)) = InitPackets
    /\ Latched(BytesOf(0, Len(commits))) = InitNibbles
    /\ now - CT(Len(commits)) >= LONG_THRESHOLD_US

C2_Witness ==
  /\ At(INIT_FN, L(145))
  /\ Len(commits) = 37
  /\ CB(37) = 16

----------------------------------------------------------------------------
(* C3: when lcd_command(cmd) returns, six bytes have been committed since  *)
(* it was entered and the time since the last of them is at least the long *)
(* threshold if cmd is 0x01 or 0x02, and otherwise at least the short      *)
(* threshold and below the long threshold.                                 *)

SHORT_THRESHOLD_US == 50

C3_CommandDelay ==
  At(CM, L(108)) =>
    LET cmd   == frame[CM].cmd
        since == now - CT(Len(commits))
    IN  /\ Len(commits) = frame[CM].base + 6
        /\ cmd \in {1, 2} => since >= LONG_THRESHOLD_US
        /\ cmd \notin {1, 2} => since >= SHORT_THRESHOLD_US /\ since < LONG_THRESHOLD_US

\* lcd_command(0x02), called by the caller, is about to return after delay(5)
C3_Witness ==
  /\ At(CM, L(108))
  /\ Len(stack) = 2
  /\ frame[CM].cmd = 2
  /\ now - CT(Len(commits)) >= LONG_THRESHOLD_US

----------------------------------------------------------------------------
(* C4: when lcd_send_data(data, rs) returns, six bytes have been committed *)
(* since it was entered, three for the high nibble and then three for the  *)
(* low nibble, and the data bits of any packet of the first three, plus    *)
(* the data bits of any packet of the last three shifted right by four,    *)
(* are data.                                                               *)

C4_SplitRoundTrip ==
  At(SD, L(62)) =>
    LET b == frame[SD].base
    IN  /\ Len(commits) = b + 6
        /\ \A i \in 1..3, j \in 4..6 :
              DataOf(CB(b + i)) + (DataOf(CB(b + j)) \div 16) = frame[SD].data

\* lcd_send_data(0xA5, 1), called directly, is about to return
C4_Witness ==
  /\ At(SD, L(62))
  /\ Len(stack) = 2
  /\ frame[SD].data = 165
  /\ frame[SD].rs = 1
  /\ DataOf(CB(frame[SD].base + 1)) = 160
  /\ DataOf(CB(frame[SD].base + 4)) = 80

----------------------------------------------------------------------------
(* C5: lcd_print(text) returns, and when it does, with n the index of the  *)
(* first zero byte of text, the bytes committed since it was entered are   *)
(* the packets of text[0], ..., text[n-1] in this order, each with RS = 1, *)
(* and nothing else; two calls with the same text commit the same bytes.   *)

\* the index (from 0) of the first terminator of a text
FirstZero(text) ==
  CHOOSE n \in 0..(Len(text) - 1) :
    text[n + 1] = 0 /\ \A m \in 0..(n - 1) : text[m + 1] # 0

Active(f) == \E i \in 1..Len(stack) : stack[i] = f

C5_PrintReturns ==
  At(PR, L(114)) =>
    LET fr == frame[PR]
        n  == FirstZero(fr.text)
        b  == fr.base
    IN  /\ fr.str = n
        /\ Len(commits) = b + 6 * n
        /\ \A k \in 0..(n - 1) :
              BytesOf(b + 6 * k, b + 6 * k + 6) = BytePackets(fr.text[k + 1], 1)

C5_PrintRepeats ==
  \A i, j \in 1..Len(calls) :
    (calls[i].fn = PR /\ calls[j].fn = PR /\ calls[i].args = calls[j].args)
      => BytesOf(calls[i].from, calls[i].to) = BytesOf(calls[j].from, calls[j].to)

C5_Print ==
  /\ [](C5_PrintReturns /\ C5_PrintRepeats)
  /\ (Active(PR) ~> ~Active(PR))

\* the second of two calls lcd_print("AB") is about to return
C5_Witness ==
  /\ At(PR, L(114))
  /\ frame[PR].text = <<65, 66, 0>>
  /\ Len(calls) = 2
  /\ calls[2].fn = PR
  /\ calls[2].args = << <<65, 66, 0>> >>
  /\ Len(commits) = frame[PR].base + 12

----------------------------------------------------------------------------
(* C6: when lcd_setCursor(col, row) returns, with row in 0..3, six bytes   *)
(* have been committed since it was entered: the packets of one command    *)
(* byte (RS = 0).  As claimed, the byte is 0x80 | (col + offset[row]); as  *)
(* amended, it is that value converted to a byte (mod 256).                *)

OffsetOfRow(row) ==
  CASE row = 0 -> 0 [] row = 1 -> 64 [] row = 2 -> 20 [] row = 3 -> 84

\* 0x80 | x
Or128(x) == IF (x \div 128) % 2 = 1 THEN x ELSE x + 128

\* the byte the six commits since base carry
ByteSince(base) == DataOf(CB(base + 1)) + (DataOf(CB(base + 4)) \div 16)

C6_Original ==
  (At(SC, L(119)) /\ frame[SC].row \in 0..3) =>
    LET fr == frame[SC]
    IN  /\ Len(commits) = fr.base + 6
        /\ \A i \in 1..6 : RSOf(CB(fr.base + i)) = 0
        /\ ByteSince(fr.base) = Or128(fr.col + OffsetOfRow(fr.row))

C6_CursorCommand ==
  (At(SC, L(119)) /\ frame[SC].row \in 0..3) =>
    LET fr   == frame[SC]
        byte == Or128(fr.col + OffsetOfRow(fr.row)) % 256
    IN  /\ Len(commits) = fr.base + 6
        /\ BytesOf(fr.base, fr.base + 6) = BytePackets(byte, 0)
        /\ ByteSince(fr.base) = byte
        /\ (fr.col = 5 /\ fr.row = 1) => ByteSince(fr.base) = 197

\* lcd_setCursor(5, 1) is about to return, having sent 0xC5
C6_Witness ==
  /\ At(SC, L(119))
  /\ frame[SC].col = 5
  /\ frame[SC].row = 1
  /\ ByteSince(frame[SC].base) = 197

----------------------------------------------------------------------------
(* C7: every completed call lcd_command(cmd) of the caller committed the   *)
(* six packets of cmd with RS = 0, whatever was called before it; a call   *)
(* with 0x01 or 0x02 ended at least the long threshold after its last      *)
(* commit; and two calls with the same cmd committed the same bytes at the *)
(* same times relative to their entry and took the same time.              *)

C7_CommandStateless ==
  /\ \A k \in 1..Len(calls) :
        calls[k].fn = CM =>
          /\ BytesOf(calls[k].from, calls[k].to) = BytePackets(calls[k].args[1], 0)
          /\ calls[k].args[1] \in {1, 2}
                => calls[k].t1 - CT(calls[k].to) >= LONG_THRESHOLD_US
  /\ \A i, j \in 1..Len(calls) :
        (calls[i].fn = CM /\ calls[j].fn = CM /\ calls[i].args = calls[j].args)
          => /\ RelativeTo(calls[i].from, calls[i].to, calls[i].t0)
                  = RelativeTo(calls[j].from, calls[j].to, calls[j].t0)
             /\ calls[i].t1 - calls[i].t0 = calls[j].t1 - calls[j].t0

\* lcd_command(0x01) has been called twice in a row
C7_Witness ==
  /\ Len(calls) = 3
  /\ calls[2].fn = CM /\ calls[2].args = <<1>>
  /\ calls[3].fn = CM /\ calls[3].args = <<1>>
  /\ calls[3].from = calls[2].to

----------------------------------------------------------------------------
(* C8: a byte is transferred only while the latch is low and is the only   *)
(* transfer since the latch was driven low; the latch rises only after     *)
(* exactly one transfer; and the outputs change only at a rising edge of   *)
(* the latch, to the byte just transferred.                                *)

C8_Step ==
  /\ xfers' = xfers + 1 => latch = LOW /\ latch' = LOW /\ xfers = 0
  /\ (latch = LOW /\ latch' = HIGH) =>
        /\ xfers = 1
        /\ q' = sr
        /\ commits' = Append(commits, <<sr, now>>)
  /\ (q' # q \/ commits' # commits) => latch = LOW /\ latch' = HIGH
  /\ sr' # sr => xfers' = xfers + 1

C8_OneTransferPerCommit == [][C8_Step]_vars

\* send_nibble_spi has just committed the packet with Enable set
C8_Witness ==
  /\ At(SN, L(85))
  /\ latch = HIGH
  /\ xfers = 1
  /\ q = frame[SN].packet
  /\ EnableOf(q) = 1
  /\ CB(Len(commits)) = q

----------------------------------------------------------------------------
(* C9: the bus is held whenever the latch is driven, a byte is transferred *)
(* or a byte is committed.  As claimed, after a commit made in a           *)
(* transaction no time passes and no further commit is made until the bus  *)
(* is released.  As amended: the commits of a transaction are the one      *)
(* clearing commit of lcd_init or the (up to three) commits of one nibble  *)
(* transmission; the bus is released by the step that follows the latch    *)
(* rising on the last of them; and only the 2 us Enable delays pass while  *)
(* the bus is held.                                                        *)

\* the bus is held, and a commit has been made since it was acquired
HeldAfterCommit == txn > 0 /\ txnCommits >= 1

C9_Original ==
  /\ txn \in {0, 1}
  /\ HeldAfterCommit => txnCommits = 1 /\ now = CT(Len(commits))

\* the number of commits of the transaction the active function makes
CommitsPerTransaction == IF Top = SN THEN 3 ELSE 1

C9_Held ==
  /\ txn \in {0, 1}
  /\ txn = 1 =>
       \/ Top = SN /\ txnCommits <= 3 /\ Len(commits) = frame[SN].base + txnCommits
       \/ Top = INIT_FN /\ txnCommits <= 1 /\ Len(commits) = txnCommits

C9_Step ==
  /\ (latch' # latch \/ xfers' # xfers \/ sr' # sr \/ commits' # commits)
        => txn = 1 /\ txn' = 1
  /\ (HeldAfterCommit /\ txnCommits = CommitsPerTransaction) => txn' = 0
  /\ now' - now > ENABLE_PULSE_US => txn = 0 /\ txn' = 0
  /\ (txn = 1 /\ now' # now) => txnCommits \in {1, 2} /\ Top = SN

C9_BusOwnership == []C9_Held /\ [][C9_Step]_vars

\* the bus has just been released after the third commit of a nibble, before
\* the settle delay
C9_Witness ==
  /\ At(SN, L(96))
  /\ txn = 0
  /\ txnCommits = 3
  /\ latch = HIGH
  /\ now = CT(Len(commits))

----------------------------------------------------------------------------
(* C10: whenever the caller is between calls, the nibbles the controller   *)
(* has latched since lcd_init returned, taken in pairs, are exactly the    *)
(* bytes of the calls made since, each with its RS flag, in the order of   *)
(* the calls, and six bytes were committed per byte issued.                *)

\* the bytes a call of the caller asks to be sent, with their RS flag
IssuedBy(call) ==
  CASE call.fn = CM -> << <<call.args[1], 0>> >>
    [] call.fn = PR -> [k \in 1..FirstZero(call.args[1]) |-> <<call.args[1][k], 1>>]
    [] call.fn = SC -> << <<Or128(call.args[1] + OffsetOfRow(call.args[2])) % 256, 0>> >>
    [] OTHER -> <<>>

\* the bytes issued by calls 2 .. k (call 1 is lcd_init)
RECURSIVE Issued(_)
Issued(k) == IF k < 2 THEN <<>> ELSE Issued(k - 1) \o IssuedBy(calls[k])

\* latched nibbles, two by two, as <<byte, RS>>; a nibble left over or a pair
\* with two RS flags decodes to <<-1, -1>>
RECURSIVE PairUp(_)
PairUp(ns) ==
  IF ns = <<>> THEN <<>>
  ELSE IF Len(ns) = 1 \/ ns[1][2] # ns[2][2] THEN << <<-1, -1>> >>
  ELSE << <<ns[1][1] + (ns[2][1] \div 16), ns[1][2]>> >>
          \o PairUp(SubSeq(ns, 3, Len(ns)))

C10_OrderPreserved ==
  (Top = CA /\ Len(calls) >= 1) =>
    LET bs == BytesOf(calls[1].to, Len(commits))
    IN  /\ PairUp(Latched(bs)) = Issued(Len(calls))
        /\ Len(bs) = 6 * Len(Issued(Len(calls)))

\* lcd_print("AB") and lcd_setCursor(5, 1) have been called after lcd_init
C10_Witness ==
  /\ Top = CA
  /\ Len(calls) = 3
  /\ calls[2].fn = PR /\ calls[2].args = << <<65, 66, 0>> >>
  /\ calls[3].fn = SC /\ calls[3].args = <<5, 1>>
  /\ PairUp(Latched(BytesOf(calls[1].to, Len(commits))))
        = << <<65, 1>>, <<66, 1>>, <<197, 0>> >>

----------------------------------------------------------------------------
(* Gaps between commits, in programmed delay time.  After lcd_init's       *)
(* clearing commit and its four single nibbles, the commits of the program *)
(* and of the caller of Spec come six per byte.                            *)

\* the commits before the first byte transmission: 0x00 and four nibbles
SingleCommits == 1 + 4 * 3

\* the commit before the first commit of byte transmission k (k = 0, 1, ...)
ByteBase(k) == SingleCommits + 6 * k

\* between the high nibble's capture commit and the low nibble's setup commit
InterNibbleGap(k) == CT(ByteBase(k) + 4) - CT(ByteBase(k) + 3)

\* between the low nibble's capture commit and the next commit
SettleGap(k) == CT(ByteBase(k) + 7) - CT(ByteBase(k) + 6)

\* the byte transmissions that are followed by a commit
FollowedBytes == {k \in 0..Len(commits) : ByteBase(k) + 7 <= Len(commits)}

----------------------------------------------------------------------------
(* C11: as claimed, after every byte transmission the settle gap before    *)
(* the next commit is strictly longer than the byte's inter-nibble gap.    *)
(* As amended: it is strictly longer after a command byte (RS = 0); after  *)
(* a data byte (RS = 1) it is as long as the inter-nibble gap, not longer. *)

C11_Original ==
  \A k \in FollowedBytes : SettleGap(k) > InterNibbleGap(k)

C11_SettleGap ==
  \A k \in FollowedBytes :
    /\ SettleGap(k) >= InterNibbleGap(k)
    /\ RSOf(CB(ByteBase(k) + 6)) = 0 => SettleGap(k) > InterNibbleGap(k)
    /\ RSOf(CB(ByteBase(k) + 6)) = 1 => SettleGap(k) = InterNibbleGap(k)

\* lcd_print("AB") then lcd_command(0x0C): after 'A' the gap to 'B' equals the
\* inter-nibble gap, after the command of lcd_init before it the gap is longer
C11_Witness ==
  /\ Len(calls) = 3
  /\ calls[2].fn = PR /\ calls[2].args = << <<65, 66, 0>> >>
  /\ calls[3].fn = CM
  /\ SettleGap(4) = InterNibbleGap(4)
  /\ RSOf(CB(ByteBase(4) + 6)) = 1
  /\ SettleGap(3) > InterNibbleGap(3)
  /\ RSOf(CB(ByteBase(3) + 6)) = 0

----------------------------------------------------------------------------
(* C12: when lcd_init returns, its first commit was made at least 40 ms    *)
(* after it was entered, the second 0x3 nibble began at least 5 ms after   *)
(* the first ended, and the third 0x3 nibble and the 0x2 nibble each began *)
(* at least 100 us after the nibble before them ended.                     *)

C12_InitTiming ==
  At(INIT_FN, L(145)) =>
    LET b == frame[INIT_FN].base
    IN  /\ Len(commits) >= b + 13
        /\ CT(b + 1) - frame[INIT_FN].t0 >= 40 * 1000
        /\ DataOf(CB(b + 4)) = 48 /\ DataOf(CB(b + 5)) = 48
        /\ CT(b + 5) - CT(b + 4) >= 5 * 1000
        /\ DataOf(CB(b + 7)) = 48 /\ DataOf(CB(b + 8)) = 48
        /\ CT(b + 8) - CT(b + 7) >= 100
        /\ DataOf(CB(b + 10)) = 48 /\ DataOf(CB(b + 11)) = 32
        /\ CT(b + 11) - CT(b + 10) >= 100

C12_Witness ==
  /\ At(INIT_FN, L(145))
  /\ CT(1) = 50000
  /\ CT(5) - CT(4) = 5050
  /\ CT(8) - CT(7) = 250

----------------------------------------------------------------------------
(* C13: a commit that follows a commit with Enable set is made at least    *)
(* 2 us later, clears Enable and leaves the data bits and the RS bit as    *)
(* they were.                                                              *)

C13_EnablePulse ==
  \A i \in 2..Len(commits) :
    EnableOf(CB(i - 1)) = 1 =>
      /\ EnableOf(CB(i)) = 0
      /\ CT(i) - CT(i - 1) >= 2
      /\ DataOf(CB(i)) = DataOf(CB(i - 1))
      /\ RSOf(CB(i)) = RSOf(CB(i - 1))

\* the capture commit of a data nibble has just been made
C13_Witness ==
  /\ At(SN, L(94))
  /\ frame[SN].rs = 1
  /\ EnableOf(CB(Len(commits) - 1)) = 1
  /\ EnableOf(CB(Len(commits))) = 0
  /\ CT(Len(commits)) - CT(Len(commits) - 1) = 2

----------------------------------------------------------------------------
(* C14: every nibble transmission that starts after the 0x2 nibble of      *)
(* lcd_init is made by lcd_send_data: either its first, with the high      *)
(* nibble of data and nothing committed since lcd_send_data was entered,   *)
(* or its second, with the low nibble of data and only the three commits   *)
(* of the first since then; both carry the RS flag of lcd_send_data, and   *)
(* lcd_send_data returns with exactly six commits made.                    *)

C14_PairedNibbles ==
  /\ (Top = SN /\ frame[SN].base >= SingleCommits) =>
        /\ stack[Len(stack) - 1] = SD
        /\ frame[SN].rs = frame[SD].rs
        /\ \/ /\ frame[SD].pc = L(61)
              /\ frame[SN].base = frame[SD].base
              /\ frame[SN].nibble = 16 * (frame[SD].data \div 16)
           \/ /\ frame[SD].pc = L(62)
              /\ frame[SN].base = frame[SD].base + 3
              /\ frame[SN].nibble = 16 * (frame[SD].data % 16)
  /\ At(SD, L(62)) => Len(commits) = frame[SD].base + 6
  /\ (Top # SN /\ Len(commits) >= SingleCommits) =>
        (Len(commits) - SingleCommits) % 3 = 0

\* the low nibble of 'B', printed after lcd_init, is being sent
C14_Witness ==
  /\ Top = SN
  /\ Active(PR)
  /\ frame[SD].data = 66
  /\ frame[SD].pc = L(62)
  /\ frame[SN].nibble = 32
  /\ frame[SN].pc = L(97)

----------------------------------------------------------------------------
(* C15: when lcd_send_data(data, rs) returns, its six packets have bit 0   *)
(* equal to rs; when lcd_command returns, its six packets have bit 0       *)
(* clear; when lcd_print returns, all its packets have bit 0 set.          *)

C15_RSBit ==
  /\ At(SD, L(62)) =>
        /\ Len(commits) = frame[SD].base + 6
        /\ \A i \in 1..6 : RSOf(CB(frame[SD].base + i)) = frame[SD].rs
  /\ At(CM, L(108)) =>
        /\ Len(commits) = frame[CM].base + 6
        /\ \A i \in 1..6 : RSOf(CB(frame[CM].base + i)) = 0
  /\ At(PR, L(114)) =>
        \A i \in (frame[PR].base + 1)..Len(commits) : RSOf(CB(i)) = 1

\* lcd_send_data(0xFE, 1), called directly, is about to return
C15_Witness ==
  /\ At(SD, L(62))
  /\ Len(stack) = 2
  /\ frame[SD].data = 254
  /\ frame[SD].rs = 1
  /\ \A i \in 1..6 : RSOf(CB(frame[SD].base + i)) = 1

----------------------------------------------------------------------------
(* C16: in the program (setup once, then loop again and again) lcd_init is *)
(* called once, by setup, as its first call of the driver; while it runs   *)
(* and before it, no lcd_print and no lcd_setCursor is active and only the *)
(* packets of the initialization are committed; and no step taken while    *)
(* loop is active, or after setup has returned, commits a byte.            *)

\* the number of completed calls of f
Completed(f) == Cardinality({k \in 1..Len(calls) : calls[k].fn = f})

\* setup() has returned
SetupDone == frame[MA].pc = 2 /\ ~Active(SU)

C16_State ==
  /\ Completed(INIT_FN) + (IF Active(INIT_FN) THEN 1 ELSE 0) <= 1
  /\ Len(calls) >= 1 => calls[1].fn = INIT_FN /\ calls[1].from = 0
  /\ (Active(PR) \/ Active(SC)) => Completed(INIT_FN) = 1
  /\ Completed(INIT_FN) = 0 =>
        /\ Len(commits) <= Len(InitPackets)
        /\ BytesOf(0, Len(commits)) = SubSeq(InitPackets, 1, Len(commits))
  /\ SetupDone => Completed(INIT_FN) = 1 /\ Len(calls) = 4
  /\ Active(LO) => SetupDone

C16_Step == SetupDone => (commits' = commits /\ q' = q /\ SetupDone')

C16_InitOnce == []C16_State /\ [][C16_Step]_vars

\* loop is running, after a setup that called lcd_init once and then printed
C16_Witness ==
  /\ Active(LO)
  /\ Completed(INIT_FN) = 1
  /\ Completed(PR) = 2
  /\ Len(commits) > Len(InitPackets)

----------------------------------------------------------------------------
(* C17: the transaction depth is 0 or 1; it is 1 at every statement of     *)
(* send_nibble_spi and lcd_init that writes the latch pin or transfers a   *)
(* byte; and at the closing brace of each driver function the bus is       *)
(* released, the latch pin is high and the register outputs, the last      *)
(* committed byte, have Enable clear.                                      *)

BusStatements ==
  {<<SN, L(l)>> : l \in {75, 76, 77, 82, 83, 84, 89, 90, 91}}
    \cup {<<INIT_FN, L(l)>> : l \in {126, 127, 128}}

ClosingBraces ==
  {<<SN, L(97)>>, <<SD, L(62)>>, <<CM, L(108)>>, <<PR, L(114)>>,
   <<SC, L(119)>>, <<INIT_FN, L(145)>>}

C17_Transactions ==
  /\ txn \in {0, 1}
  /\ \A s \in BusStatements : At(s[1], s[2]) => txn = 1
  /\ \A s \in ClosingBraces :
        At(s[1], s[2]) =>
          /\ txn = 0
          /\ latch = HIGH
          /\ Len(commits) >= 1
          /\ q = CB(Len(commits))
          /\ EnableOf(q) = 0

\* lcd_setCursor is about to return, after its command was sent
C17_Witness ==
  /\ At(SC, L(119))
  /\ txn = 0
  /\ latch = HIGH
  /\ Len(commits) = frame[SC].base + 6
  /\ EnableOf(CB(Len(commits))) = 0

----------------------------------------------------------------------------
(* C18: the first commit of the program is 0x00, made by lcd_init; the     *)
(* second is the setup commit of the first 0x3 nibble (Enable clear), made *)
(* at least 10 ms later; so no packet with Enable set is committed before  *)
(* the 0x00.                                                               *)

C18_ClearFirst ==
  /\ Len(commits) >= 1 =>
        /\ CB(1) = 0
        /\ Completed(INIT_FN) = 1 \/ Active(INIT_FN)
  /\ Len(commits) = 1 => Active(INIT_FN)
  /\ Len(commits) >= 2 =>
        /\ CB(2) = 48
        /\ CT(2) - CT(1) >= 10 * 1000
  /\ \A i \in 1..Len(commits) : EnableOf(CB(i)) = 1 => i >= 3

\* the first nibble of lcd_init has raised Enable, 10 ms after the 0x00
C18_Witness ==
  /\ Len(commits) = 3
  /\ CB(1) = 0
  /\ CB(3) = 50
  /\ CT(2) - CT(1) = 10000
  /\ Active(SU)

----------------------------------------------------------------------------
(* C19: when lcd_setCursor(col, row) returns, for col in 0..255 and row in *)
(* 0..3, the command byte it sent is 0x80 | ((col + offset[row]) mod 256), *)
(* has bit 7 set, is neither 0x01 nor 0x02, and was followed by the short  *)
(* delay only; the long branch of lcd_command is never taken under         *)
(* lcd_setCursor.                                                          *)

C19_CursorByte ==
  /\ At(SC, L(119)) =>
        LET fr    == frame[SC]
            byte  == ByteSince(fr.base)
            since == now - CT(Len(commits))
        IN  /\ Len(commits) = fr.base + 6
            /\ fr.row \in 0..3 =>
                  byte = Or128((fr.col + OffsetOfRow(fr.row)) % 256)
            /\ byte >= 128 /\ byte <= 255
            /\ byte \notin {1, 2}
            /\ since >= SHORT_THRESHOLD_US /\ since < LONG_THRESHOLD_US
  /\ (Active(SC) /\ Top = CM) =>
        /\ frame[CM].cmd >= 128 /\ frame[CM].cmd <= 255
        /\ frame[CM].pc # L(104)

\* lcd_setCursor(250, 3) is about to return: 250 + 0x54 = 334, sent as 0xCE
C19_Witness ==
  /\ At(SC, L(119))
  /\ frame[SC].col = 250
  /\ frame[SC].row = 3
  /\ ByteSince(frame[SC].base) = 206
  /\ now - CT(Len(commits)) = 100

----------------------------------------------------------------------------
(* C20: every committed byte has bits 2 and 3 clear.                       *)

UnusedOf(b) == (b \div 4) % 4       \* bits 2-3

C20_UnusedBitsLow ==
  \A i \in 1..Len(commits) : UnusedOf(CB(i)) = 0

\* lcd_send_data(0xFF, 1), called directly, has committed its last packet
C20_Witness ==
  /\ At(SD, L(62))
  /\ frame[SD].data = 255
  /\ frame[SD].rs = 1
  /\ CB(Len(commits)) = 241
  /\ \A i \in 1..Len(commits) : UnusedOf(CB(i)) = 0

====
